---- MODULE Spec2Model ----
(***************************************************************************)
(* Model of src/handler.py: the Runpod handler that renders a list of     *)
(* scenes into one video with FFmpeg (render_video, create_subtitle_file, *)
(* handler).                                                               *)
(*                                                                         *)
(* All durations are in milliseconds (the source uses float seconds).     *)
(* External tools (ffmpeg, ffprobe, the network, the Drive API, base64    *)
(* decoding of payload data) are the environment: every outcome they can  *)
(* produce is a nondeterministic choice in the step that invokes them.    *)
(* job_input is read-only, so the contents of scene i are drawn when the  *)
(* loop of render_video reaches scene i, and the bgm / Drive settings     *)
(* where the code first tests them.                                       *)
(*                                                                         *)
(* The input space is explored in four slices, fixed by dom in Init:      *)
(*   "flow"        - every resolution, container, bgm shape, artifact     *)
(*                   size and upload outcome, with one requested duration;*)
(*   "timeline"    - every requested / measured duration, with one        *)
(*                   resolution, container, artifact size, no bgm/upload; *)
(*   "environment" - every outcome of the remote downloads of a scene,    *)
(*                   with one duration, resolution and artifact size;     *)
(*   "degenerate"  - requested durations that are zero or negative (the   *)
(*                   code does not validate them), single everything else.*)
(* Failures of ffmpeg, ffprobe and payload decoding are explored in all.  *)
(***************************************************************************)
EXTENDS Integers, Sequences, FiniteSets, TLC

\* ---------------------------------------------------------------- bounds
MaxScenes == 2

\* ------------------------------------------------------ program constants
fps == 30
DefaultDuration == 3000
EndBuffer == 1000
LastSceneBuffer == 1000
DiagLimit == 500
SizeLimit == 104857600

\* ------------------------------------------------------------ input sets
Slices == {"flow", "timeline", "environment", "degenerate"}
DurationChoices(d) == IF d = "timeline" THEN {2000, 3000}
                      ELSE IF d = "degenerate" THEN {-2000, 0} ELSE {2000}
MeasuredChoices(d) == IF d = "timeline" THEN {0, 2610} ELSE {0}
ProbeOutcomes(d) ==
    {[kind |-> "unparsable", value |-> 0]}
    \cup {[kind |-> "value", value |-> v] : v \in MeasuredChoices(d) \ {0}}
    \cup (IF d = "timeline"
          THEN {[kind |-> "raises", value |-> 0], [kind |-> "value", value |-> 0]}
          ELSE {})
GapChoices == {0, 1000}
ResolutionChoices(d) == IF d = "flow" THEN {"480p", "4k"} ELSE {"480p"}
FormatChoices(d) == IF d = "flow" THEN {"mp4", "mkv"} ELSE {"mp4"}
BgmChoices(d) == IF d = "flow" THEN {"none", "data", "url"} ELSE {"none"}
DriveChoices(d) == IF d = "flow" THEN {"off", "ok", "failed"} ELSE {"off"}
StderrLens == {0, DiagLimit, DiagLimit + 1}
ProbedChoices(d, actual) == IF d = "timeline" THEN {0, actual} ELSE {actual}
FileSizes(d) == IF d = "flow" THEN {1024, SizeLimit - 1, SizeLimit, SizeLimit + 1}
                ELSE {1024}
UrlOutcomes(d) == IF d = "environment" THEN BOOLEAN ELSE {TRUE}
WorkDirChoices(d) ==
    IF d = "environment"
    THEN {<<"/tmp/tmpk3v9a0qz/">>, <<"/tmp/tm", "p4", "w81xrc/">>,
          <<"/workspace/", "nvenc", "/tmpk3v9a0qz/">>}
    ELSE {<<"/tmp/tmpk3v9a0qz/">>}
VisualKeys == {"videoData", "videoUrl", "imageData", "imageUrl"}
AudioKeys == {"audioData", "audioUrl"}

VARIABLES
    dom,              \* the slice of the input space explored
    pc,               \* position in handler / render_video
    job,              \* scalar fields of job_input
    i,                \* loop index of the scene loop
    scenes,           \* fields of scenes[0..i] read so far (1-based here)
    cur,              \* locals of the current loop iteration
    encLog,           \* encoder invocations made for the current scene
    segment_files,    \* scene indices of the segments appended
    audio_files,      \* scene indices of the audio files appended
    actual_durations, \* the list returned as actualSegmentDurations
    targets,          \* target_duration of every appended segment
    tempDirExists,    \* the TemporaryDirectory of the with-block
    merged_video,     \* does merged.<fmt> exist
    merged_audio,     \* "none" | "merged" | "mixed"
    srt,              \* cues written to subtitles.srt, or NoSrt
    audio_concat,     \* entries written to audio_concat.txt
    finalLog,         \* encoder invocations of the final composition
    stages,           \* pipeline stages entered after the scene loop
    concatRc,         \* exit status of the video concat ("none" before it)
    file_size,        \* output_file.stat().st_size (0 until measured)
    temp_dir,         \* pieces of the working directory's path (<<>> until a
                      \* path is built from it)
    failed_download,  \* index of the first scene one of whose download_from_url
                      \* calls returned False (-1: none so far)
    exc,              \* exception raised inside render_video: its kind and
                      \* the step that raised it
    result            \* what handler returns

vars == <<dom, pc, job, i, scenes, cur, encLog, segment_files, audio_files,
          actual_durations, targets, tempDirExists, merged_video,
          merged_audio, srt, audio_concat, finalLog, stages, concatRc, file_size,
          temp_dir, failed_download, exc, result>>

\* ---------------------------------------------------------------- helpers
Min(a, b) == IF a < b THEN a ELSE b

RECURSIVE SumSeq(_)
SumSeq(s) == IF s = <<>> THEN 0 ELSE Head(s) + SumSeq(Tail(s))

NoResult == <<>>
NoSrt == [written |-> FALSE, cues |-> <<>>]
NoCur == [phase |-> "idle"]
NoExc == [kind |-> "none", at |-> "none"]

\* res_map.get(resolution, (1920, 1080))
ResMap(resolution) ==
    CASE resolution = "1440p" -> <<2560, 1440>>
      [] resolution = "1080p" -> <<1920, 1080>>
      [] resolution = "720p"  -> <<1280, 720>>
      [] resolution = "480p"  -> <<854, 480>>
      [] OTHER                -> <<1920, 1080>>

\* math.ceil(target_duration * fps) + 1, target_duration in ms
ExactFramesInverted(target_duration) ==
    IF target_duration <= 0 THEN 1
    ELSE ((fps * 1000 + target_duration - 1) \div target_duration) + 1
ExactFrames(target_duration) == ((target_duration * fps + 999) \div 1000) + 1

Init ==
    /\ dom \in Slices
    /\ pc = "start"
    /\ job \in [nScenes : 0..MaxScenes,
                sceneGapDuration : GapChoices,
                showSubtitle : BOOLEAN,
                resolution : ResolutionChoices(dom),
                outputFormat : {"unread"},
                bgm : {"unread"},
                drive : {"unread"}]
    /\ i = 0
    /\ failed_download = -1
    /\ temp_dir = <<>>
    /\ scenes = <<>>
    /\ cur = NoCur
    /\ encLog = <<>>
    /\ segment_files = <<>>
    /\ audio_files = <<>>
    /\ actual_durations = <<>>
    /\ targets = <<>>
    /\ tempDirExists = FALSE
    /\ merged_video = FALSE
    /\ merged_audio = "none"
    /\ srt = NoSrt
    /\ audio_concat = <<>>
    /\ finalLog = <<>>
    /\ stages = {}
    /\ concatRc = "none"
    /\ file_size = 0
    /\ exc = NoExc
    /\ result = NoResult

\* ------------------------------------------------- leaving render_video
\* `with tempfile.TemporaryDirectory() as temp_dir:` -- __exit__ removes the
\* directory however the block is left; the value is tempDirExists afterwards.
\* how: "success" | "error" | "raise"
DirAfterExitLeaky(how) == how # "success"
DirAfterExit(how) == FALSE

\* a `return {...}` statement inside the with-block; handler returns the
\* value as it is (lines 612-613)
Return(res, how) ==
    /\ pc' = "done"
    /\ result' = res
    /\ exc' = exc
    /\ tempDirExists' = DirAfterExit(how)

\* an exception leaving the with-block and render_video
Raise(kind) ==
    /\ pc' = "raised"
    /\ exc' = [kind |-> kind, at |-> pc]
    /\ result' = result
    /\ tempDirExists' = DirAfterExit("raise")

\* a step that stays inside the with-block
Goto(next) ==
    /\ pc' = next
    /\ UNCHANGED <<exc, result, tempDirExists>>

\* ---------------------------------------------------------------- handler
\* handler: job.get('input'), call render_video; render_video up to the
\* with statement
Start ==
    /\ pc = "start"
    /\ IF job.nScenes = 0
       THEN /\ pc' = "done"
            /\ result' = [error |-> [msg |-> "no_scenes", scene |-> 0, diagLen |-> 0]]
            /\ UNCHANGED tempDirExists
       ELSE /\ pc' = "scene_media"
            /\ tempDirExists' = TRUE
            /\ UNCHANGED result
    /\ UNCHANGED <<dom, temp_dir, failed_download, file_size, job, i, scenes,
                   cur, encLog, segment_files, audio_files,
                   actual_durations, targets, merged_video, merged_audio, srt,
                   finalLog, stages, concatRc, exc, audio_concat>>

\* ------------------------------------------------------------ scene loop
\* lines 259-288: the visual source of a scene.  visual is the set of keys the
\* scene carries with a truthy value; b64ok / vUrlOk / iUrlOk are what
\* download_base64_file and download_from_url do with them.
AcquireVisual(visual, b64ok, vUrlOk, iUrlOk) ==
    LET video == IF "videoData" \in visual
                 THEN (IF b64ok THEN "video" ELSE "raise")
                 ELSE IF "videoUrl" \in visual /\ vUrlOk THEN "video"
                 ELSE "none"
    IN  CASE video = "raise" -> [kind |-> "raise", media_file |-> "none", is_video |-> FALSE]
          [] video = "video" -> [kind |-> "ok", media_file |-> "video.mp4", is_video |-> TRUE]
          [] OTHER ->
               IF "imageData" \in visual
               THEN IF b64ok
                    THEN [kind |-> "ok", media_file |-> "image.png", is_video |-> FALSE]
                    ELSE [kind |-> "raise", media_file |-> "none", is_video |-> FALSE]
               ELSE IF "imageUrl" \in visual
               THEN IF iUrlOk
                    THEN [kind |-> "ok", media_file |-> "image.jpg", is_video |-> FALSE]
                    ELSE [kind |-> "image_download_failed", media_file |-> "none", is_video |-> FALSE]
               ELSE [kind |-> "no_media", media_file |-> "none", is_video |-> FALSE]

\* lines 267-272, 280-285: did a download_from_url call of the visual source
\* return False
VisualDownloadFailed(visual, vUrlOk, iUrlOk) ==
    LET tried_video_url == "videoData" \notin visual /\ "videoUrl" \in visual
        no_video == "videoData" \notin visual /\ ~("videoUrl" \in visual /\ vUrlOk)
        tried_image_url == no_video /\ "imageData" \notin visual /\ "imageUrl" \in visual
    IN  (tried_video_url /\ ~vUrlOk) \/ (tried_image_url /\ ~iUrlOk)

\* the first scene with a failed download
NoteDownload(failed) ==
    failed_download' = IF failed /\ failed_download = -1 THEN i ELSE failed_download

SceneMedia ==
    /\ pc = "scene_media"
    /\ \E visual \in SUBSET VisualKeys, b64ok \in BOOLEAN,
          vUrlOk \in UrlOutcomes(dom), iUrlOk \in UrlOutcomes(dom) :
         LET a == AcquireVisual(visual, b64ok, vUrlOk, iUrlOk)
         IN  /\ NoteDownload(VisualDownloadFailed(visual, vUrlOk, iUrlOk))
             /\ CASE a.kind = "ok" ->
                    /\ cur' = [phase |-> "media", media_file |-> a.media_file,
                               is_video |-> a.is_video]
                    /\ Goto("scene_audio")
               [] a.kind = "raise" ->
                    /\ cur' = NoCur
                    /\ Raise("binascii.Error")
               [] OTHER ->
                    /\ cur' = NoCur
                    /\ Return([error |-> [msg |-> a.kind, scene |-> i + 1, diagLen |-> 0]],
                              "error")
    /\ encLog' = <<>>
    /\ UNCHANGED <<dom, temp_dir, file_size, job, i, scenes, segment_files,
                   audio_files, actual_durations,
                   targets, merged_video, merged_audio, srt, finalLog, stages,
                   concatRc, audio_concat>>

\* the fields of a scene read after its visual source
SceneFields(d) ==
    [hasDuration : {TRUE}, duration : DurationChoices(d), subtitle : BOOLEAN]
    \cup [hasDuration : {FALSE}, duration : {0}, subtitle : BOOLEAN]

\* scene.get('duration', 3)
RequestedDuration(scene) == IF scene.hasDuration THEN scene.duration ELSE DefaultDuration

\* lines 294-300: "file" | "none" | "raise"
AcquireAudio(audio, b64ok, urlOk) ==
    IF "audioData" \in audio
    THEN (IF b64ok THEN "file" ELSE "raise")
    ELSE IF "audioUrl" \in audio /\ urlOk THEN "file"
    ELSE "none"

\* lines 297-300: did the download_from_url call of the audio return False
AudioDownloadFailed(audio, urlOk) ==
    "audioData" \notin audio /\ "audioUrl" \in audio /\ ~urlOk

\* get_video_duration, lines 167-178.  probe is what running ffprobe gave:
\* "raises" (subprocess.run raised), "unparsable" (stdout is not a float,
\* as after a non-zero exit) or a "value"; "none" when it was not run.
NoProbe == [kind |-> "none", value |-> 0]
get_video_duration(probe) == IF probe.kind = "value" THEN probe.value ELSE 0

\* lines 291, 302-306: measured is what get_video_duration returned
AudioDurationNoFallback(scene, audio_file, measured) ==
    IF audio_file = "file" THEN measured ELSE RequestedDuration(scene)
AudioDuration(scene, audio_file, measured) ==
    IF audio_file = "file" /\ measured > 0 THEN measured ELSE RequestedDuration(scene)

\* lines 252-254, 308
TargetDurationNoBuffer(audio_duration, idx, n, gap) ==
    audio_duration + (IF idx = n - 1 THEN 0 ELSE gap)
TargetDurationGapAlways(audio_duration, idx, n, gap) ==
    audio_duration + gap + (IF idx = n - 1 THEN EndBuffer ELSE 0)
TargetDuration(audio_duration, idx, n, gap) ==
    LET is_last == idx = n - 1
        gap_to_include == IF is_last THEN 0 ELSE gap
        end_buffer == IF is_last THEN EndBuffer ELSE 0
    IN  audio_duration + gap_to_include + end_buffer

SceneAudio ==
    /\ pc = "scene_audio"
    /\ \E scene \in SceneFields(dom), audio \in SUBSET AudioKeys, b64ok \in BOOLEAN,
          urlOk \in UrlOutcomes(dom), outcome \in ProbeOutcomes(dom) :
         LET audio_file == AcquireAudio(audio, b64ok, urlOk)
             probe == IF audio_file = "file" THEN outcome ELSE NoProbe
             measured == get_video_duration(probe)
             audio_duration == AudioDuration(scene, audio_file, measured)
             target_duration == TargetDuration(audio_duration, i, job.nScenes,
                                               job.sceneGapDuration)
         IN  /\ scenes' = Append(scenes, scene)
             /\ NoteDownload(AudioDownloadFailed(audio, urlOk))
             /\ IF audio_file = "raise"
                THEN /\ Raise("binascii.Error")
                     /\ UNCHANGED <<cur, audio_files>>
                ELSE /\ Goto("seg_gpu")
                     /\ audio_files' = IF audio_file = "file"
                                       THEN Append(audio_files, i) ELSE audio_files
                     /\ cur' = [phase |-> "encode", media_file |-> cur.media_file,
                                is_video |-> cur.is_video,
                                probe |-> probe, measured |-> measured,
                                audio_duration |-> audio_duration,
                                target_duration |-> target_duration,
                                exact_frames |-> ExactFrames(target_duration)]
    /\ UNCHANGED <<dom, temp_dir, file_size, job, i, encLog, segment_files,
                   actual_durations, targets,
                   merged_video, merged_audio, srt, finalLog, stages, concatRc,
                   audio_concat>>

\* ------------------------------------------------------- segment encoding
\* lines 320 / 338: the -vf argument.  The video chain starts with fps=<fps>.
SegmentFilter(is_video, width, height) ==
    [fpsFilter |-> IF is_video THEN fps ELSE 0,
     scale |-> <<width, height>>, pad |-> <<width, height>>]

\* lines 315-346: the NVENC command of a segment
GpuSegmentCmd(c, idx, width, height) ==
    [op |-> IF c.is_video THEN "stream_loop" ELSE "loop_image",
     input |-> c.media_file,
     framerate |-> IF c.is_video THEN 0 ELSE fps,
     vf |-> SegmentFilter(c.is_video, width, height),
     frames |-> c.exact_frames,
     codec |-> "h264_nvenc", preset |-> "p4", rate |-> <<"-rc", "vbr", "-cq", "23">>,
     pix_fmt |-> "yuv420p", r |-> fps, an |-> c.is_video, output |-> idx]

\* lines 351-380: the libx264 command of a segment
CpuSegmentCmdFloorFrames(c, idx, width, height) ==
    [op |-> IF c.is_video THEN "stream_loop" ELSE "loop_image",
     input |-> c.media_file,
     framerate |-> IF c.is_video THEN 0 ELSE fps,
     vf |-> SegmentFilter(c.is_video, width, height),
     frames |-> (c.target_duration * fps) \div 1000,
     codec |-> "libx264", preset |-> "ultrafast", rate |-> <<"-crf", "23">>,
     pix_fmt |-> "yuv420p", r |-> fps, an |-> c.is_video, output |-> idx]
CpuSegmentCmd(c, idx, width, height) ==
    [op |-> IF c.is_video THEN "stream_loop" ELSE "loop_image",
     input |-> c.media_file,
     framerate |-> IF c.is_video THEN 0 ELSE fps,
     vf |-> SegmentFilter(c.is_video, width, height),
     frames |-> c.exact_frames,
     codec |-> "libx264", preset |-> "ultrafast", rate |-> <<"-crf", "23">>,
     pix_fmt |-> "yuv420p", r |-> fps, an |-> c.is_video, output |-> idx]

\* lines 385-389 and the loop header: the segment of scene i is kept
SceneKey(idx) == <<"scene", idx>>

AppendSegment ==
    /\ segment_files' = Append(segment_files, i)
    /\ actual_durations' = Append(actual_durations,
                                  [sceneKey |-> SceneKey(i), duration |-> cur.audio_duration])
    /\ targets' = Append(targets, cur.target_duration)
    /\ i' = i + 1
    /\ Goto(IF i + 1 = job.nScenes THEN "concat" ELSE "scene_media")

\* lines 383: the error of a segment whose CPU retry failed too
SegmentFailureUncut(idx, stderrLen) ==
    [error |-> [msg |-> "segment_render_failed", scene |-> idx + 1, diagLen |-> stderrLen]]
SegmentFailure(idx, stderrLen) ==
    [error |-> [msg |-> "segment_render_failed", scene |-> idx + 1,
                diagLen |-> Min(stderrLen, DiagLimit)]]

\* lines 314-349: first attempt
SegGpu ==
    /\ pc = "seg_gpu"
    /\ LET wh == ResMap(job.resolution)
           cmd == GpuSegmentCmd(cur, i, wh[1], wh[2])
       IN  \E rc \in {0, 1} :
             /\ encLog' = Append(encLog, [cmd |-> cmd, rc |-> rc])
             /\ IF rc = 0
                THEN AppendSegment
                ELSE /\ Goto("seg_cpu")
                     /\ UNCHANGED <<segment_files, actual_durations, targets, i>>
    /\ UNCHANGED <<dom, temp_dir, failed_download, file_size, job, scenes,
                   cur, audio_files, merged_video, merged_audio, srt,
                   finalLog, stages, concatRc, audio_concat>>

\* lines 349-383: the retry after a non-zero exit
SegCpu ==
    /\ pc = "seg_cpu"
    /\ LET wh == ResMap(job.resolution)
           cmd == CpuSegmentCmd(cur, i, wh[1], wh[2])
       IN  \E rc \in {0, 1} :
             /\ encLog' = Append(encLog, [cmd |-> cmd, rc |-> rc])
             /\ IF rc = 0
                THEN AppendSegment
                ELSE /\ \E stderrLen \in StderrLens :
                          Return(SegmentFailure(i, stderrLen), "error")
                     /\ UNCHANGED <<segment_files, actual_durations, targets, i>>
    /\ UNCHANGED <<dom, temp_dir, failed_download, file_size, job, scenes,
                   cur, audio_files, merged_video, merged_audio, srt,
                   finalLog, stages, concatRc, audio_concat>>

\* subprocess.run raising instead of returning (the tool cannot be started)
ToolNotFound ==
    /\ pc \in {"seg_gpu", "seg_cpu", "concat", "final_gpu", "final_cpu"}
    /\ Raise("FileNotFoundError")
    /\ UNCHANGED <<dom, temp_dir, failed_download, file_size, job, i, scenes,
                   cur, encLog, segment_files, audio_files,
                   actual_durations, targets, merged_video, merged_audio, srt,
                   finalLog, stages, concatRc, audio_concat>>

\* ------------------------------------------------------ timeline assembly
\* lines 393-407: the ordered segments are concatenated; the exit status of
\* the concat run is not inspected.  A failed run may or may not leave a
\* (partial) merged file behind.
Concat ==
    /\ pc = "concat"
    /\ \E fmt \in FormatChoices(dom), dir \in WorkDirChoices(dom),
          rc \in {0, 1}, leftBehind \in BOOLEAN :
         /\ job' = [job EXCEPT !.outputFormat = fmt]
         /\ temp_dir' = dir
         /\ concatRc' = IF rc = 0 THEN "zero" ELSE "nonzero"
         /\ merged_video' = (rc = 0 \/ leftBehind)
    /\ stages' = stages \cup {"concat"}
    /\ cur' = NoCur
    /\ encLog' = <<>>
    /\ Goto("audio_merge")
    /\ UNCHANGED <<dom, failed_download, file_size, i, scenes, segment_files,
                   audio_files, actual_durations, targets,
                   merged_audio, srt, audio_concat, finalLog>>

\* lines 413-427: the lines of audio_concat.txt
AudioConcatListTrailing(files, j, gap) ==
    IF gap > 0
    THEN [k \in 1..(2 * Len(files)) |->
            IF k % 2 = 1
            THEN [kind |-> "audio", of |-> files[(k + 1) \div 2], length |-> 0]
            ELSE [kind |-> "silence", of |-> (k \div 2) - 1, length |-> gap]]
    ELSE [k \in 1..Len(files) |-> [kind |-> "audio", of |-> files[k], length |-> 0]]
RECURSIVE AudioConcatList(_, _, _)
AudioConcatList(files, j, gap) ==
    IF j > Len(files) THEN <<>>
    ELSE <<[kind |-> "audio", of |-> files[j], length |-> 0]>>
         \o (IF j < Len(files) /\ gap > 0
             THEN <<[kind |-> "silence", of |-> j - 1, length |-> gap]>>
             ELSE <<>>)
         \o AudioConcatList(files, j + 1, gap)

\* lines 409-437
AudioMerge ==
    /\ pc = "audio_merge"
    /\ IF audio_files # <<>>
       THEN /\ audio_concat' = AudioConcatList(audio_files, 1, job.sceneGapDuration)
            /\ merged_audio' = "merged"
            /\ stages' = stages \cup {"audio_merge"}
       ELSE UNCHANGED <<audio_concat, merged_audio, stages>>
    /\ Goto("bgm")
    /\ UNCHANGED <<dom, temp_dir, failed_download, file_size, job, i, scenes,
                   cur, encLog, segment_files, audio_files,
                   actual_durations, targets, merged_video, srt, finalLog, concatRc>>

\* ------------------------------------------------------ background music
\* lines 439-478.  bgm is the shape of job_input['bgm']: absent, carrying
\* 'data', or carrying only 'url'.  b64ok: does b64decode accept the data;
\* urlOk: download_from_url's answer; numeric: are volume / fadeIn / fadeOut
\* numbers; mixed: does mixed_audio.mp3 exist after the mixer ran.
Bgm ==
    /\ pc = "bgm"
    /\ \E bgm \in BgmChoices(dom), b64ok \in BOOLEAN, urlOk \in BOOLEAN,
          numeric \in BOOLEAN, mixed \in BOOLEAN :
         /\ job' = [job EXCEPT !.bgm = bgm]
         /\ IF bgm # "none" /\ merged_audio # "none"
            THEN /\ stages' = stages \cup {"bgm"}
                 /\ IF bgm = "data" /\ ~b64ok
                    THEN /\ Raise("binascii.Error")
                         /\ UNCHANGED merged_audio
                    ELSE LET bgm_loaded == IF bgm = "data" THEN TRUE ELSE urlOk
                         IN  IF bgm_loaded
                             THEN IF ~numeric
                                  THEN /\ Raise("TypeError")
                                       /\ UNCHANGED merged_audio
                                  ELSE /\ merged_audio' = IF mixed THEN "mixed"
                                                          ELSE merged_audio
                                       /\ Goto("subtitle")
                             ELSE /\ Goto("subtitle")
                                  /\ UNCHANGED merged_audio
            ELSE /\ Goto("subtitle")
                 /\ UNCHANGED <<merged_audio, stages>>
    /\ UNCHANGED <<dom, temp_dir, failed_download, file_size, i, scenes, cur,
                   encLog, segment_files, audio_files,
                   actual_durations, targets, merged_video, srt, audio_concat,
                   finalLog, concatRc>>

\* --------------------------------------------------------------- subtitles
\* format_time: HH:MM:SS,mmm as <<hrs, mins, secs, ms>>
format_time(ms) ==
    <<ms \div 3600000, (ms % 3600000) \div 60000, (ms % 60000) \div 1000, ms % 1000>>

\* create_subtitle_file, lines 188 and 205-207: what one iteration adds to
\* start_time
ClockAdvanceSubtitledOnly(scene, is_last, gap_duration, last_scene_buffer) ==
    IF scene.subtitle
    THEN scene.duration + (IF is_last THEN last_scene_buffer ELSE 0)
         + (IF ~is_last /\ gap_duration > 0 THEN gap_duration ELSE 0)
    ELSE 0
ClockAdvance(scene, is_last, gap_duration, last_scene_buffer) ==
    LET effective_duration == scene.duration
                              + (IF is_last THEN last_scene_buffer ELSE 0)
    IN  effective_duration
        + (IF ~is_last /\ gap_duration > 0 THEN gap_duration ELSE 0)

\* create_subtitle_file: the value of start_time at the top of iteration k
\* (1-based) of the loop over scs
RECURSIVE SubtitleStartTime(_, _, _, _)
SubtitleStartTime(scs, k, gap_duration, last_scene_buffer) ==
    IF k = 1 THEN 0
    ELSE SubtitleStartTime(scs, k - 1, gap_duration, last_scene_buffer)
         + ClockAdvance(scs[k - 1], (k - 1) = Len(scs), gap_duration,
                        last_scene_buffer)

\* create_subtitle_file: the cues of the SRT text, in order
RECURSIVE SubtitleCues(_, _, _, _, _)
SubtitleCues(scs, k, subtitle_index, gap_duration, last_scene_buffer) ==
    IF k > Len(scs) THEN <<>>
    ELSE IF scs[k].subtitle
    THEN LET start_time == SubtitleStartTime(scs, k, gap_duration, last_scene_buffer)
             end_time == start_time + scs[k].duration
         IN  <<[index |-> subtitle_index, start |-> format_time(start_time),
                end |-> format_time(end_time), scene |-> k - 1]>>
             \o SubtitleCues(scs, k + 1, subtitle_index + 1, gap_duration,
                             last_scene_buffer)
    ELSE SubtitleCues(scs, k + 1, subtitle_index, gap_duration, last_scene_buffer)

create_subtitle_file(scs, gap_duration, last_scene_buffer) ==
    SubtitleCues(scs, 1, 1, gap_duration, last_scene_buffer)

\* lines 480-486.  scene['duration'] (line 188) raises KeyError for a scene
\* that carries no duration.
Subtitle ==
    /\ pc = "subtitle"
    /\ IF job.showSubtitle /\ \E k \in 1..Len(scenes) : scenes[k].subtitle
       THEN /\ stages' = stages \cup {"subtitle"}
            /\ IF \E k \in 1..Len(scenes) : ~scenes[k].hasDuration
               THEN /\ Raise("KeyError")
                    /\ UNCHANGED srt
               ELSE /\ srt' = [written |-> TRUE,
                               cues |-> create_subtitle_file(scenes, job.sceneGapDuration,
                                                             LastSceneBuffer)]
                    /\ Goto("final_gpu")
       ELSE /\ Goto("final_gpu")
            /\ UNCHANGED <<srt, stages>>
    /\ UNCHANGED <<dom, temp_dir, failed_download, file_size, job, i, scenes,
                   cur, encLog, segment_files, audio_files,
                   actual_durations, targets, merged_video, merged_audio,
                   audio_concat, finalLog, concatRc>>

\* ------------------------------------------------------ final composition
\* A command-line argument is a sequence of pieces of text; the pieces
\* "h264_nvenc" and "p4" are the substrings str.replace looks for (line 528),
\* "nvenc" the one line 527 looks for.
Tok(text) == <<text>>
ExtPieces(fmt) == IF fmt = "mp4" THEN <<"m", "p4">> ELSE <<fmt>>
MergedVideoPath(fmt) == temp_dir \o <<"merged.">> \o ExtPieces(fmt)
OutputPath(fmt) == temp_dir \o <<"output.">> \o ExtPieces(fmt)
AudioPath(audio) == temp_dir \o <<IF audio = "mixed" THEN "mixed_audio.mp3"
                                  ELSE "merged_audio.mp3">>
SubtitleFilter ==
    <<"subtitles='">> \o temp_dir \o <<"subtitles.srt", "':force_style='...'">>

\* lines 489-522
FinalCmd(fmt, audio, burn) ==
    <<Tok("ffmpeg"), Tok("-y"), Tok("-i"), MergedVideoPath(fmt)>>
    \o (IF audio # "none" THEN <<Tok("-i"), AudioPath(audio)>> ELSE <<>>)
    \o (IF burn
        THEN <<Tok("-vf"), SubtitleFilter, Tok("-c:v"), Tok("h264_nvenc"),
               Tok("-preset"), Tok("p4"), Tok("-rc"), Tok("vbr"), Tok("-cq"), Tok("23")>>
        ELSE <<Tok("-c:v"), Tok("copy")>>)
    \o (IF audio # "none"
        THEN <<Tok("-c:a"), Tok("aac"), Tok("-b:a"), Tok("128k")>> ELSE <<>>)
    \o <<OutputPath(fmt)>>

\* line 527: 'nvenc' in ' '.join(cmd).lower()
HasNvenc(cmd) ==
    \E k \in 1..Len(cmd) : \E p \in 1..Len(cmd[k]) : cmd[k][p] \in {"h264_nvenc", "nvenc"}

\* line 528: c.replace('h264_nvenc', 'libx264').replace('p4', 'ultrafast')
ReplacePiece(piece) ==
    IF piece = "h264_nvenc" THEN "libx264"
    ELSE IF piece = "p4" THEN "ultrafast" ELSE piece
ReplaceArg(arg) == [p \in 1..Len(arg) |-> ReplacePiece(arg[p])]

\* line 529: [c for c in cmd if c not in ['-rc', 'vbr', '-cq']]
RECURSIVE DropRateFlags(_)
DropRateFlags(cmd) ==
    IF cmd = <<>> THEN <<>>
    ELSE IF Head(cmd) \in {Tok("-rc"), Tok("vbr"), Tok("-cq")}
    THEN DropRateFlags(Tail(cmd))
    ELSE <<Head(cmd)>> \o DropRateFlags(Tail(cmd))

\* lines 530-542: drop '-cq' / '-rc' and the argument after each
RECURSIVE SkipLoop(_, _)
SkipLoop(cmd, skip_next) ==
    IF cmd = <<>> THEN <<>>
    ELSE IF skip_next THEN SkipLoop(Tail(cmd), FALSE)
    ELSE IF Head(cmd) \in {Tok("-cq"), Tok("-rc")} THEN SkipLoop(Tail(cmd), TRUE)
    ELSE <<Head(cmd)>> \o SkipLoop(Tail(cmd), FALSE)

\* list.insert(idx, x), idx 0-based, clamped to the end as Python does
InsertAt(cmd, idx, x) ==
    LET at == Min(idx, Len(cmd))
    IN  SubSeq(cmd, 1, at) \o <<x>> \o SubSeq(cmd, at + 1, Len(cmd))

\* lines 543-546
InsertCrf(new_cmd) ==
    IF \E k \in 1..Len(new_cmd) : new_cmd[k] = Tok("-c:v")
    THEN LET idx == (CHOOSE k \in 1..Len(new_cmd) :
                        /\ new_cmd[k] = Tok("-c:v")
                        /\ \A m \in 1..(k - 1) : new_cmd[m] # Tok("-c:v")) - 1
         IN  InsertAt(InsertAt(new_cmd, idx + 2, Tok("-crf")), idx + 3, Tok("23"))
    ELSE new_cmd

\* lines 528-546: the command of the retry, derived from the first one
CpuFallbackCmd(cmd) ==
    InsertCrf(SkipLoop(DropRateFlags([k \in 1..Len(cmd) |-> ReplaceArg(cmd[k])]), FALSE))

\* ffmpeg's reading of a command line: an argument that is neither an option
\* nor an option's value names an output file.
NoValueOptions == {Tok("-y"), Tok("-an")}
ValueOptions == {Tok("-i"), Tok("-vf"), Tok("-c:v"), Tok("-preset"), Tok("-rc"),
                 Tok("-cq"), Tok("-crf"), Tok("-c:a"), Tok("-b:a")}
RECURSIVE CmdFiles(_, _)
CmdFiles(args, which) ==
    IF args = <<>> THEN <<>>
    ELSE IF Head(args) \in NoValueOptions THEN CmdFiles(Tail(args), which)
    ELSE IF Head(args) \in ValueOptions
    THEN (IF Head(args) = Tok("-i") /\ which = "in" /\ Len(args) > 1
          THEN <<args[2]>> ELSE <<>>)
         \o CmdFiles(IF Len(args) > 1 THEN Tail(Tail(args)) ELSE <<>>, which)
    ELSE (IF which = "out" THEN <<Head(args)>> ELSE <<>>) \o CmdFiles(Tail(args), which)

\* ffmpeg can exit 0 only if its first input is the merged video, that file
\* exists, and every output named has a container ffmpeg can infer
CanExitZero(cmd, fmt) ==
    LET ins == CmdFiles(Tail(cmd), "in")
        outs == CmdFiles(Tail(cmd), "out")
    IN  /\ merged_video
        /\ ins # <<>> /\ ins[1] = MergedVideoPath(fmt)
        /\ outs = <<OutputPath(fmt)>>

\* lines 549-550
FinalFailureUncut(stderrLen) ==
    [error |-> [msg |-> "final_render_failed", scene |-> 0, diagLen |-> stderrLen]]
FinalFailure(stderrLen) ==
    [error |-> [msg |-> "final_render_failed", scene |-> 0,
                diagLen |-> Min(stderrLen, DiagLimit)]]

\* lines 488-527, 549-550: the first attempt
FinalGpu ==
    /\ pc = "final_gpu"
    /\ LET cmd == FinalCmd(job.outputFormat, merged_audio, srt.written)
       IN  \E rc \in {0, 1} :
             /\ rc = 0 => CanExitZero(cmd, job.outputFormat)
             /\ finalLog' = <<[cmd |-> cmd, rc |-> rc]>>
             /\ IF rc = 0 THEN Goto("package")
                ELSE IF HasNvenc(cmd) THEN Goto("final_cpu")
                ELSE \E stderrLen \in StderrLens :
                        Return(FinalFailure(stderrLen), "error")
    /\ stages' = stages \cup {"compose"}
    /\ UNCHANGED <<dom, temp_dir, failed_download, file_size, job, i, scenes,
                   cur, encLog, segment_files, audio_files,
                   actual_durations, targets, merged_video, merged_audio, srt,
                   audio_concat, concatRc>>

\* lines 527-550: the retry
FinalCpu ==
    /\ pc = "final_cpu"
    /\ LET new_cmd == CpuFallbackCmd(finalLog[1].cmd)
       IN  \E rc \in {0, 1} :
             /\ rc = 0 => CanExitZero(new_cmd, job.outputFormat)
             /\ finalLog' = Append(finalLog, [cmd |-> new_cmd, rc |-> rc])
             /\ IF rc = 0 THEN Goto("package")
                ELSE \E stderrLen \in StderrLens :
                        Return(FinalFailure(stderrLen), "error")
    /\ UNCHANGED <<dom, temp_dir, failed_download, file_size, job, i, scenes,
                   cur, encLog, segment_files, audio_files,
                   actual_durations, targets, merged_video, merged_audio, srt,
                   audio_concat, stages, concatRc>>

\* ---------------------------------------------------------- result packager
\* round(file_size / (1024 * 1024), 2), in hundredths of a MB
SizeMB(size) ==
    (size \div 1048576) * 100 + ((size % 1048576) * 100 + 524288) \div 1048576

\* line 589: is the artifact returned inline
InlineAllowedAtLimit(size) == size <= SizeLimit
InlineAllowed(size) == size < SizeLimit

\* lines 576-586
DriveResultWithData(duration, size) ==
    [success |-> TRUE, uploadedToDrive |-> TRUE, driveFileId |-> "fileId",
     driveViewLink |-> "webViewLink", driveDownloadLink |-> "webContentLink",
     videoData |-> <<"data:video/", job.outputFormat, size>>,
     duration |-> duration, sizeMB |-> SizeMB(size),
     actualSegmentDurations |-> actual_durations,
     actualGapDuration |-> job.sceneGapDuration]
DriveResult(duration, size) ==
    [success |-> TRUE, uploadedToDrive |-> TRUE, driveFileId |-> "fileId",
     driveViewLink |-> "webViewLink", driveDownloadLink |-> "webContentLink",
     duration |-> duration, sizeMB |-> SizeMB(size),
     actualSegmentDurations |-> actual_durations,
     actualGapDuration |-> job.sceneGapDuration]

\* lines 590-598
InlineResult(duration, size) ==
    [success |-> TRUE, videoData |-> <<"data:video/", job.outputFormat, size>>,
     duration |-> duration, sizeMB |-> SizeMB(size),
     actualSegmentDurations |-> actual_durations,
     actualGapDuration |-> job.sceneGapDuration]

\* lines 600-605
OversizeResult(duration, size) ==
    [success |-> TRUE,
     error |-> [msg |-> "file_too_large", scene |-> 0, diagLen |-> 0],
     duration |-> duration, sizeMB |-> SizeMB(size)]

\* lines 552-605.  exists: output_file.exists(); duration: what
\* get_video_duration(output_file) returned; drive: "off" when the upload is
\* not requested or not configured (line 562), else what
\* upload_to_google_drive answered.
Package ==
    /\ pc = "package"
    /\ \E exists \in BOOLEAN, size \in FileSizes(dom), drive \in DriveChoices(dom),
          duration \in ProbedChoices(dom, SumSeq(targets)) :
             IF ~exists
         THEN /\ Return([error |-> [msg |-> "no_output", scene |-> 0, diagLen |-> 0]],
                        "error")
              /\ UNCHANGED <<job, stages, file_size>>
         ELSE /\ file_size' = size
              /\ job' = [job EXCEPT !.drive = drive]
              /\ stages' = IF drive = "off" THEN stages ELSE stages \cup {"upload"}
              /\ IF drive = "ok"
                 THEN Return(DriveResult(duration, size), "success")
                 ELSE IF InlineAllowed(size)
                 THEN Return(InlineResult(duration, size), "success")
                 ELSE Return(OversizeResult(duration, size), "success")
    /\ UNCHANGED <<dom, temp_dir, failed_download, i, scenes, cur, encLog,
                   segment_files, audio_files,
                   actual_durations, targets, merged_video, merged_audio, srt,
                   audio_concat, finalLog, concatRc>>

\* ---------------------------------------------------------------- handler
\* line 614: which exceptions `except Exception` catches
CatchesValueErrorOnly(kind) == kind \in {"binascii.Error", "ValueError"}
Catches(kind) == kind \in {"binascii.Error", "ValueError", "KeyError", "TypeError",
                           "FileNotFoundError", "OSError"}

\* lines 614-616
HandlerExcept ==
    /\ pc = "raised"
    /\ IF Catches(exc.kind)
       THEN /\ pc' = "done"
            /\ result' = [error |-> [msg |-> exc.kind, scene |-> 0, diagLen |-> 0],
                          traceback |-> "traceback"]
       ELSE /\ pc' = "crashed"
            /\ UNCHANGED result
    /\ UNCHANGED <<dom, temp_dir, failed_download, file_size, job, i, scenes,
                   cur, encLog, segment_files, audio_files,
                   actual_durations, targets, tempDirExists, merged_video,
                   merged_audio, srt, audio_concat, finalLog, stages, concatRc, exc>>

Next ==
    \/ Start
    \/ SceneMedia
    \/ SceneAudio
    \/ SegGpu
    \/ SegCpu
    \/ ToolNotFound
    \/ Concat
    \/ AudioMerge
    \/ Bgm
    \/ Subtitle
    \/ FinalGpu
    \/ FinalCpu
    \/ Package
    \/ HandlerExcept

Spec == Init /\ [][Next]_vars

\* ===================================================================
\* Properties
\* ===================================================================
Last(s) == s[Len(s)]
Has(r, key) == key \in DOMAIN r
IsErrorOnly(r) == DOMAIN r = {"error"}
IsSuccess(r) == Has(r, "success") /\ r.success

\* C1: segment encoding tries the GPU profile first; a retry is made if and
\* only if that attempt exits non-zero, exactly once, with the CPU profile and
\* the same frame count, resolution, frame rate and filter chain; a retry that
\* exits zero appends the segment as a successful first attempt does; at most
\* two encoder invocations per scene.
C1_SameOperation(a, b) ==
    /\ a.frames = b.frames
    /\ a.vf = b.vf
    /\ a.r = b.r /\ a.framerate = b.framerate
    /\ a.op = b.op /\ a.input = b.input /\ a.an = b.an
    /\ a.pix_fmt = b.pix_fmt /\ a.output = b.output
C1_SegmentFallback ==
    /\ Len(encLog) <= 2
    /\ encLog # <<>> =>
         /\ encLog[1].cmd.codec = "h264_nvenc"
         /\ encLog[1].cmd.rate = <<"-rc", "vbr", "-cq", "23">>
         /\ encLog[1].cmd.vf.scale = ResMap(job.resolution)
    /\ Len(encLog) = 2 =>
         /\ encLog[1].rc # 0
         /\ encLog[2].cmd.codec = "libx264"
         /\ encLog[2].cmd.rate = <<"-crf", "23">>
         /\ C1_SameOperation(encLog[1].cmd, encLog[2].cmd)
    /\ (encLog # <<>> /\ encLog[1].rc # 0 /\ exc.kind = "none"
        /\ pc # "seg_cpu") => Len(encLog) = 2
    /\ (encLog # <<>> /\ Last(encLog).rc = 0) =>
         /\ Len(segment_files) = Last(encLog).cmd.output + 1
         /\ Last(segment_files) = Last(encLog).cmd.output
         /\ i = Last(encLog).cmd.output + 1
         /\ Len(actual_durations) = i /\ Len(targets) = i
         /\ Last(encLog).cmd.frames = ExactFrames(Last(targets))
         /\ pc \in {"scene_media", "concat", "raised", "done"}
         /\ pc \in {"raised", "done"} => exc.at = "concat"
C1_Witness ==
    /\ pc = "concat"
    /\ Len(encLog) = 2 /\ encLog[1].rc # 0 /\ encLog[2].rc = 0
    /\ Len(segment_files) = job.nScenes

\* C2: for every scene i the subtitle clock at scene i equals the sum of the
\* target durations used to render segments 0..i-1, and both sides use the
\* same end buffer, for every requested and measured duration.
C2_TimelineDeterminism ==
    /\ EndBuffer = LastSceneBuffer
    /\ srt.written =>
         \A k \in 1..Len(scenes) :
            SubtitleStartTime(scenes, k, job.sceneGapDuration, LastSceneBuffer)
              = SumSeq(SubSeq(targets, 1, k - 1))

\* C3: the cue of scene i starts at the sum over scenes 0..i-1 of (scene
\* duration + gap) and ends at start + the raw duration of scene i; scenes
\* without subtitle emit no cue but advance the clock; cues are numbered
\* consecutively from 1.  Example: 2.0 s and 3.0 s, gap 1.0 s, both subtitled:
\* 00:00:00,000 --> 00:00:02,000 and 00:00:03,000 --> 00:00:06,000.
C3_StartOf(k) ==
    SumSeq([j \in 1..(k - 1) |-> scenes[j].duration + job.sceneGapDuration])
C3_Example ==
    /\ Len(scenes) = 2
    /\ scenes[1].duration = 2000 /\ scenes[2].duration = 3000
    /\ scenes[1].subtitle /\ scenes[2].subtitle
    /\ job.sceneGapDuration = 1000
C3_SubtitleCues ==
    srt.written =>
      /\ Len(srt.cues) = Cardinality({k \in 1..Len(scenes) : scenes[k].subtitle})
      /\ \A k \in 1..Len(scenes) :
           scenes[k].subtitle <=> \E m \in 1..Len(srt.cues) : srt.cues[m].scene = k - 1
      /\ \A m \in 1..Len(srt.cues) :
           LET cue == srt.cues[m]
               k == cue.scene + 1
           IN  /\ cue.index = m
               /\ m > 1 => srt.cues[m - 1].scene < cue.scene
               /\ cue.start = format_time(C3_StartOf(k))
               /\ cue.end = format_time(C3_StartOf(k) + scenes[k].duration)
      /\ C3_Example =>
           srt.cues = <<[index |-> 1, start |-> <<0, 0, 0, 0>>, end |-> <<0, 0, 2, 0>>,
                         scene |-> 0],
                        [index |-> 2, start |-> <<0, 0, 3, 0>>, end |-> <<0, 0, 6, 0>>,
                         scene |-> 1]>>
C3_Witness == srt.written /\ C3_Example
C3_WitnessSkipped ==
    /\ srt.written /\ Len(scenes) = 2
    /\ ~scenes[1].subtitle /\ scenes[2].subtitle /\ job.sceneGapDuration > 0

\* C4: every result with success = true carries actualSegmentDurations with
\* one {sceneKey, duration} entry per scene in scene order, and
\* actualGapDuration equal to the request's sceneGapDuration.
C4_SuccessCarriesDurations ==
    (pc = "done" /\ IsSuccess(result)) =>
      /\ Has(result, "actualSegmentDurations")
      /\ Has(result, "actualGapDuration")
      /\ Len(result.actualSegmentDurations) = job.nScenes
      /\ \A k \in 1..job.nScenes :
           result.actualSegmentDurations[k].sceneKey = SceneKey(k - 1)
      /\ result.actualGapDuration = job.sceneGapDuration

\* C5 (as claimed): an artifact of exactly 100 MB is returned inline as
\* videoData; one byte more, without a successful upload, gives an advisory
\* error, no videoData, and duration and sizeMB.
C5_Packaged == pc = "done" /\ file_size > 0 /\ job.drive # "ok"
C5_Advisory ==
    /\ Has(result, "error") /\ ~Has(result, "videoData")
    /\ Has(result, "duration") /\ Has(result, "sizeMB")
C5_AtLimitInline ==
    /\ (C5_Packaged /\ file_size = SizeLimit) =>
         (Has(result, "videoData") /\ ~Has(result, "error"))
    /\ (C5_Packaged /\ file_size = SizeLimit + 1) => C5_Advisory
\* C5 (amended): an artifact of exactly 100 MB is over the threshold like any
\* larger one: without a successful upload it gives an advisory error, no
\* videoData, and duration and sizeMB; an artifact under 100 MB (one byte
\* less included) is returned inline as videoData.
C5_SizePolicy ==
    /\ (C5_Packaged /\ file_size >= SizeLimit) => C5_Advisory
    /\ (C5_Packaged /\ file_size < SizeLimit) =>
         (Has(result, "videoData") /\ ~Has(result, "error"))
C5_Witness ==
    C5_Packaged /\ file_size = SizeLimit /\ C5_Advisory /\ result.sizeMB = 10000

\* C6: once the working directory has been created, it is gone by the time
\* the job returns: on success, on every early error return and on every
\* exception leaving the pipeline.
C6_WorkDirReleased ==
    /\ pc \in {"done", "raised", "crashed"} => ~tempDirExists
    /\ tempDirExists <=> pc \in {"scene_media", "scene_audio", "seg_gpu", "seg_cpu",
                                 "concat", "audio_merge", "bgm", "subtitle",
                                 "final_gpu", "final_cpu", "package"}
C6_Witness ==
    /\ pc = "done" /\ ~tempDirExists
    /\ IsErrorOnly(result) /\ result.error.msg = "final_render_failed"

\* C7: handler never raises: every exception raised inside render_video ends
\* in a returned result with an 'error', and such a result never reports
\* success.
C7_HandlerNeverRaises ==
    /\ pc # "crashed"
    /\ (pc = "done" /\ exc.kind # "none") =>
         (Has(result, "error") /\ ~Has(result, "success"))
C7_Witness ==
    pc = "done" /\ exc.kind = "KeyError" /\ Has(result, "error")

\* C8: whatever goes wrong while acquiring the background track or running
\* the mixer, the job goes on to the final composition (no failure of the job
\* comes out of the bgm step).
C8_BgmNeverFailsJob == exc.at # "bgm"

\* C9: a run in which the video concat exited non-zero ends with an error
\* result, never with a success result.
C9_ConcatFailureIsFatal ==
    (pc = "done" /\ concatRc = "nonzero") =>
      (Has(result, "error") /\ ~Has(result, "success"))

\* C10: if the GPU attempt and the CPU retry of scene i both exit non-zero,
\* the job returns an error-only result naming scene i+1 with at most 500
\* characters of diagnostics; no later scene is rendered and no concat, mix,
\* subtitle, compose or upload step runs.
C10_BothFailed == Len(encLog) = 2 /\ encLog[2].rc # 0
C10_SegmentHardFailure ==
    C10_BothFailed =>
      /\ pc = "done"
      /\ IsErrorOnly(result)
      /\ result.error.msg = "segment_render_failed"
      /\ result.error.scene = i + 1
      /\ encLog[2].cmd.output = i
      /\ result.error.diagLen <= DiagLimit
      /\ Len(segment_files) = i /\ Len(scenes) = i + 1
      /\ stages = {} /\ concatRc = "none" /\ finalLog = <<>>
      /\ merged_audio = "none" /\ ~srt.written /\ file_size = 0
C10_Witness ==
    /\ C10_BothFailed /\ pc = "done" /\ i = 1
    /\ result.error.scene = 2 /\ result.error.diagLen = DiagLimit

\* C11: when the scene list is empty, or when some scene has no usable visual
\* source, the job returns an error-only result (no success flag, no video
\* data, no durations) and no encoder invocation has been made for any scene
\* by then.
C11_InputError ==
    pc = "done" /\ Has(result, "error")
      /\ result.error.msg \in {"no_scenes", "no_media"}
C11_InputErrorsImmediate ==
    C11_InputError =>
      /\ IsErrorOnly(result)
      /\ ~Has(result, "videoData") /\ ~Has(result, "actualSegmentDurations")
      /\ segment_files = <<>> /\ targets = <<>>

\* C12: whenever a remote download for scene i fails (the video URL, the
\* image URL or the audio URL), the job result is an error that identifies
\* scene i; no remote download failure is absorbed into a success result.
\* Checked on finished jobs: a job one of whose scene downloads failed does
\* not end in a result that reports success and carries no error.
C12_DownloadFailureSurfaced ==
    (pc = "done" /\ failed_download >= 0) =>
      ~(IsSuccess(result) /\ ~Has(result, "error"))

\* C13: if the upload was requested, is configured and succeeds, the result
\* carries driveFileId and the Drive links and no videoData, whatever the
\* artifact size; otherwise (upload not requested, not configured, or failed)
\* an artifact under the size threshold is returned inline as videoData.  A
\* result never carries both videoData and driveFileId.
C13_Delivered == pc = "done" /\ file_size > 0
C13_PackagingChoice ==
    /\ (C13_Delivered /\ job.drive = "ok") =>
         /\ Has(result, "driveFileId")
         /\ Has(result, "driveViewLink") /\ Has(result, "driveDownloadLink")
         /\ ~Has(result, "videoData")
    /\ (C13_Delivered /\ job.drive \in {"off", "failed"} /\ file_size < SizeLimit) =>
         /\ Has(result, "videoData") /\ ~Has(result, "driveFileId")
    /\ ~(Has(result, "videoData") /\ Has(result, "driveFileId"))
C13_Witness ==
    /\ C13_Delivered /\ job.drive = "ok" /\ file_size > SizeLimit
    /\ Has(result, "driveFileId") /\ ~Has(result, "videoData")
C13_WitnessFallback ==
    /\ C13_Delivered /\ job.drive = "failed" /\ file_size = SizeLimit - 1
    /\ Has(result, "videoData")

\* C14 (as claimed): frame_count = ceil(target_duration * fps) + 1 at fps = 30
\* is non-decreasing in target_duration and at least 1 for every
\* target_duration the pipeline can compute.  Checked on the frame count of
\* the scene being encoded against the targets of the segments already
\* appended and against every target within one frame of its own.
C14_FrameMs == 1000 \div fps + 1
C14_Monotone ==
    cur.phase = "encode" =>
      /\ \A k \in 1..Len(targets) :
           /\ targets[k] <= cur.target_duration =>
                ExactFrames(targets[k]) <= cur.exact_frames
           /\ targets[k] >= cur.target_duration =>
                ExactFrames(targets[k]) >= cur.exact_frames
      /\ \A delta \in 1..C14_FrameMs :
           /\ ExactFrames(cur.target_duration - delta) <= cur.exact_frames
           /\ ExactFrames(cur.target_duration + delta) >= cur.exact_frames
C14_FrameCountAtLeastOne ==
    /\ C14_Monotone
    /\ cur.phase = "encode" => cur.exact_frames >= 1
\* C14 (amended): frame_count is non-decreasing in target_duration for every
\* target_duration the pipeline can compute, and at least 1 for every
\* target_duration that is not negative.
C14_FrameCount ==
    /\ C14_Monotone
    /\ (cur.phase = "encode" /\ cur.target_duration >= 0) => cur.exact_frames >= 1
C14_Witness ==
    /\ cur.phase = "encode" /\ Len(targets) = 1
    /\ targets[1] < cur.target_duration
    /\ ExactFrames(targets[1]) < cur.exact_frames
C14_WitnessZero ==
    cur.phase = "encode" /\ cur.target_duration = 0 /\ cur.exact_frames = 1

\* C15 (as claimed): for a single-scene job with audio, no gap and no
\* subtitles, the rendered segment lasts frame_count / fps, which equals the
\* scene's audio duration plus an end buffer between 0.3 s and 1.0 s within
\* a tolerance of one frame (1/30 s), for every audio duration.
C15_Abs(x) == IF x < 0 THEN -x ELSE x
C15_RoundTripJob ==
    /\ cur.phase = "encode" /\ job.nScenes = 1 /\ audio_files = <<0>>
    /\ job.sceneGapDuration = 0 /\ ~job.showSubtitle
\* fps * (rendered duration - (audio duration + buffer)), in milliseconds
C15_Excess(buffer) ==
    cur.exact_frames * 1000 - fps * (cur.audio_duration + buffer)
C15_WithinFrames(frames) ==
    \E buffer \in 300..1000 : C15_Abs(C15_Excess(buffer)) <= frames * 1000
C15_RoundTripOneFrame == C15_RoundTripJob => C15_WithinFrames(1)
\* C15 (amended): the same with a tolerance of two frames (2/30 s): the
\* ceiling and the extra frame together add between one and two frames to
\* the audio duration plus the 1.0 s end buffer.
C15_RoundTripTwoFrames == C15_RoundTripJob => C15_WithinFrames(2)
C15_Witness ==
    /\ C15_RoundTripJob /\ cur.audio_duration = 2610 /\ cur.exact_frames = 110
    /\ C15_Excess(EndBuffer) = 1700

\* C16: when all n scenes carry audio and sceneGapDuration > 0, the audio
\* concat list holds the n audio tracks in scene order with exactly one
\* silence clip of length sceneGapDuration between each consecutive pair and
\* none after the last, so the merged audio lasts the sum of the scene audio
\* durations plus (n - 1) * sceneGapDuration; when sceneGapDuration is 0 no
\* silence clip is inserted.
C16_AllScenesAudio ==
    "audio_merge" \in stages /\ Len(audio_files) = job.nScenes
\* the length of a listed clip: a silence lasts its -t argument, an audio
\* track the duration the pipeline holds for its scene
C16_ClipLength(clip) ==
    IF clip.kind = "silence" THEN clip.length
    ELSE actual_durations[clip.of + 1].duration
C16_GapInterleaving ==
    /\ (C16_AllScenesAudio /\ job.sceneGapDuration > 0) =>
         LET n == job.nScenes
         IN  /\ Len(audio_concat) = 2 * n - 1
             /\ \A k \in 1..n :
                  /\ audio_concat[2 * k - 1].kind = "audio"
                  /\ audio_concat[2 * k - 1].of = k - 1
             /\ \A k \in 1..(n - 1) :
                  /\ audio_concat[2 * k].kind = "silence"
                  /\ audio_concat[2 * k].length = job.sceneGapDuration
             /\ Last(audio_concat).kind = "audio"
             /\ SumSeq([k \in 1..Len(audio_concat) |-> C16_ClipLength(audio_concat[k])])
                  = SumSeq([k \in 1..n |-> actual_durations[k].duration])
                    + (n - 1) * job.sceneGapDuration
    /\ ("audio_merge" \in stages /\ job.sceneGapDuration = 0) =>
         /\ Len(audio_concat) = Len(audio_files)
         /\ \A k \in 1..Len(audio_concat) : audio_concat[k].kind = "audio"
C16_Witness ==
    /\ C16_AllScenesAudio /\ job.nScenes = 2 /\ job.sceneGapDuration = 1000
    /\ Len(audio_concat) = 3 /\ audio_concat[2].kind = "silence"
    /\ pc = "done" /\ IsSuccess(result)

\* C17 (as claimed): for every job that produces merged audio, the video-side
\* total (the sum of the segments' target_duration) and the audio-side total
\* (the sum of the measured or fallback scene durations plus the inserted
\* gaps) differ by no more than the rounding tolerance of about one frame per
\* segment.
C17_MergedAudio == "audio_merge" \in stages
C17_VideoTotal == SumSeq(targets)
C17_AudioTotal ==
    SumSeq([k \in 1..Len(actual_durations) |-> actual_durations[k].duration])
    + SumSeq([k \in 1..Len(audio_concat) |->
                IF audio_concat[k].kind = "silence" THEN audio_concat[k].length ELSE 0])
C17_TotalsWithinFrames ==
    C17_MergedAudio =>
      fps * C15_Abs(C17_VideoTotal - C17_AudioTotal) <= 1000 * job.nScenes
\* C17 (amended): the video-side total exceeds the audio-side total by
\* exactly the 1.0 s end buffer of the last segment plus one sceneGapDuration
\* for every scene that contributed no audio file.
C17_TotalsDifferByBuffer ==
    C17_MergedAudio =>
      C17_VideoTotal - C17_AudioTotal
        = EndBuffer + (job.nScenes - Len(audio_files)) * job.sceneGapDuration
C17_Witness ==
    /\ C17_MergedAudio /\ job.nScenes = 2 /\ Len(audio_files) = 2
    /\ job.sceneGapDuration = 1000
    /\ C17_VideoTotal - C17_AudioTotal = EndBuffer
C17_WitnessSilentScene ==
    /\ C17_MergedAudio /\ job.nScenes = 2 /\ audio_files = <<1>>
    /\ job.sceneGapDuration = 1000
    /\ C17_VideoTotal - C17_AudioTotal = EndBuffer + 1000

\* C18: the command of the CPU retry of the final composition is the GPU
\* command with only the encode profile changed: h264_nvenc becomes libx264,
\* preset p4 becomes ultrafast, the arguments -rc, vbr, -cq and the -cq value
\* 23 are all removed, and -crf 23 is inserted exactly once after the codec;
\* every other argument (the paths of inputs and output, filters, audio
\* options) is identical, for every output format and working directory.
C18_CodecAt(cmd) == CHOOSE k \in 1..Len(cmd) : cmd[k] = Tok("-c:v")
C18_CpuProfile ==
    <<Tok("-c:v"), Tok("libx264"), Tok("-crf"), Tok("23"),
      Tok("-preset"), Tok("ultrafast")>>
C18_ProfileSwap(cmd) ==
    LET k == C18_CodecAt(cmd)
    IN  SubSeq(cmd, 1, k - 1) \o C18_CpuProfile \o SubSeq(cmd, k + 8, Len(cmd))
C18_RetryChangesProfileOnly ==
    Len(finalLog) = 2 =>
      /\ SubSeq(finalLog[1].cmd, C18_CodecAt(finalLog[1].cmd),
                C18_CodecAt(finalLog[1].cmd) + 7)
           = <<Tok("-c:v"), Tok("h264_nvenc"), Tok("-preset"), Tok("p4"),
               Tok("-rc"), Tok("vbr"), Tok("-cq"), Tok("23")>>
      /\ finalLog[2].cmd = C18_ProfileSwap(finalLog[1].cmd)

\* C19: the final composition invokes the encoder at most twice; the CPU
\* retry happens exactly once and only after a non-zero exit of an attempt
\* that used the GPU codec; if the last attempt exits non-zero the job
\* returns an error-only result with at most 500 characters of diagnostics;
\* success is reported only if the last attempt exited zero and the output
\* file exists.
C19_UsesGpuCodec(cmd) == \E k \in 1..Len(cmd) : cmd[k] = Tok("h264_nvenc")
C19_RetryOnlyAfterGpu ==
    /\ Len(finalLog) <= 2
    /\ Len(finalLog) = 2 =>
         (finalLog[1].rc # 0 /\ C19_UsesGpuCodec(finalLog[1].cmd))
    /\ (finalLog # <<>> /\ finalLog[1].rc # 0 /\ C19_UsesGpuCodec(finalLog[1].cmd)) =>
         (pc = "final_cpu" \/ Len(finalLog) = 2 \/ exc.kind # "none")
C19_LastAttemptDecides ==
    /\ (finalLog # <<>> /\ Last(finalLog).rc # 0 /\ pc = "done" /\ exc.kind = "none") =>
         /\ IsErrorOnly(result)
         /\ result.error.msg = "final_render_failed"
         /\ result.error.diagLen <= DiagLimit
    /\ (pc = "done" /\ IsSuccess(result)) =>
         (finalLog # <<>> /\ Last(finalLog).rc = 0 /\ file_size > 0)
C19_FinalFallback == C19_RetryOnlyAfterGpu /\ C19_LastAttemptDecides

\* C20: the final composition re-encodes the video with subtitle burn-in (GPU
\* codec first) if and only if showSubtitle is true and at least one scene
\* has a non-empty subtitle; in every other case the subtitle file is never
\* generated, the video stream is copied, no GPU codec is requested and no
\* CPU fallback is ever attempted.
C20_SubtitlesWanted ==
    job.showSubtitle /\ \E k \in 1..Len(scenes) : scenes[k].subtitle
C20_HasArg(cmd, text) == \E k \in 1..Len(cmd) : cmd[k] = Tok(text)
C20_BurnInIffSubtitles ==
    /\ srt.written => C20_SubtitlesWanted
    /\ finalLog # <<>> =>
         LET cmd == finalLog[1].cmd
         IN  IF C20_SubtitlesWanted
             THEN /\ C20_HasArg(cmd, "-vf") /\ C20_HasArg(cmd, "h264_nvenc")
                  /\ ~C20_HasArg(cmd, "copy")
             ELSE /\ ~C20_HasArg(cmd, "-vf") /\ ~C20_HasArg(cmd, "h264_nvenc")
                  /\ C20_HasArg(cmd, "copy")
                  /\ Len(finalLog) = 1

\* C21: in the assembled streams, for every scene that supplies audio, the
\* offset at which its audio starts in the merged audio (the sum of the
\* lengths of the earlier listed audio tracks and silences) equals the offset
\* at which its segment starts in the merged video (the sum of the target
\* durations of the earlier segments), for any mix of scenes with and without
\* audio and any sceneGapDuration >= 0.
C21_AudioOffset(e) ==
    SumSeq([m \in 1..(e - 1) |-> C16_ClipLength(audio_concat[m])])
C21_VideoOffset(scene) == SumSeq(SubSeq(targets, 1, scene))
C21_SceneAlignment ==
    "audio_merge" \in stages =>
      \A e \in 1..Len(audio_concat) :
         audio_concat[e].kind = "audio" =>
           C21_AudioOffset(e) = C21_VideoOffset(audio_concat[e].of)

\* C22: a probe failure is absorbed, never raised: get_video_duration returns
\* 0 whenever the probe fails or its output is not parsable; for each scene
\* the duration used for the segment and reported in actualSegmentDurations
\* is the measured audio duration when an audio file exists and the probe
\* returned a value > 0, and otherwise the scene's requested duration
\* (default 3); a probe failure alone never turns the job into an error.
C22_Scene == Len(scenes) - 1
C22_HasAudioFile == audio_files # <<>> /\ Last(audio_files) = C22_Scene
C22_ProbeFailed == cur.probe.kind \in {"raises", "unparsable"}
C22_Expected ==
    IF C22_HasAudioFile /\ cur.probe.kind = "value" /\ cur.probe.value > 0
    THEN cur.probe.value
    ELSE IF Last(scenes).hasDuration THEN Last(scenes).duration ELSE 3000
C22_ProbeAbsorbed ==
    /\ cur.phase = "encode" =>
         /\ C22_ProbeFailed => cur.measured = 0
         /\ cur.probe.kind # "none" <=> C22_HasAudioFile
         /\ cur.audio_duration = C22_Expected
         /\ cur.target_duration =
              C22_Expected + (IF C22_Scene = job.nScenes - 1 THEN EndBuffer
                              ELSE job.sceneGapDuration)
         /\ Len(actual_durations) = C22_Scene + 1 =>
              /\ actual_durations[C22_Scene + 1].duration = C22_Expected
              /\ Last(targets) = cur.target_duration
    /\ exc.at = "scene_audio" => exc.kind = "binascii.Error"
C22_Witness ==
    /\ cur.phase = "encode" /\ C22_HasAudioFile /\ cur.probe.kind = "raises"
    /\ Last(scenes).hasDuration /\ cur.audio_duration = 3000
    /\ Len(actual_durations) = C22_Scene + 1
C22_WitnessDefault ==
    /\ cur.phase = "encode" /\ C22_HasAudioFile /\ cur.probe.kind = "unparsable"
    /\ ~Last(scenes).hasDuration /\ cur.audio_duration = DefaultDuration
C22_WitnessMeasured ==
    /\ cur.phase = "encode" /\ C22_HasAudioFile /\ cur.audio_duration = 2610
    /\ Last(scenes).duration = 2000 /\ Len(actual_durations) = C22_Scene + 1

====
